---- MODULE Spec2Model ----
(***************************************************************************)
(* Model of src/main.py: the Flask relay between the drawing mini-app and  *)
(* the Telegram bot API.  The state is the process configuration (bot,     *)
(* APP_URL, WEBHOOK_URL), the uploads directory, and the requests being    *)
(* served.  /upload is split at its file-system and network operations, so *)
(* that requests served by different workers interleave there.             *)
(***************************************************************************)
EXTENDS Integers, Sequences, FiniteSets, TLC

VARIABLES bot, APP_URL, WEBHOOK_URL, files, issued, req, pc, resp, calls

vars == <<bot, APP_URL, WEBHOOK_URL, files, issued, req, pc, resp, calls>>

(***************************************************************************)
(* Bounds                                                                  *)
(***************************************************************************)
MaxReq == 2        \* requests served in one run (one slot each)
MaxLen == 5        \* longest image string enumerated by SpecCodec
MaxUrlLen == 2     \* longest APP_URL / WEBHOOK_URL enumerated by SpecStart

Reqs == 1..MaxReq
Ids == 1..MaxReq   \* pool of uuid4 values, one available per request

(***************************************************************************)
(* Python values                                                           *)
(***************************************************************************)
None == "<None>"

\* an optional str (os.getenv): None or a sequence of characters
NoneStr == [isNone |-> TRUE, s |-> <<>>]
Str(s) == [isNone |-> FALSE, s |-> s]
Truthy(v) == ~v.isNone /\ v.s # <<>>
\* Python's `a or b`
Or(a, b) == IF Truthy(a) THEN a ELSE b

RECURSIVE SeqsUpTo(_, _)
SeqsUpTo(S, n) ==
    IF n = 0 THEN {<<>>}
    ELSE LET shorter == SeqsUpTo(S, n - 1)
         IN  shorter \cup {Append(s, c) : s \in {t \in shorter : Len(t) = n - 1}, c \in S}

(***************************************************************************)
(* base64.b64decode(img_b64), validate=False  (main.py:105)                *)
(***************************************************************************)
Chars == {"Q", "=", "!", ",", "eacute"}     \* "eacute" stands for a non-ASCII character
Images == SeqsUpTo(Chars, MaxLen)

IsAscii(c) == c # "eacute"
IsB64(c) == c = "Q"
B64Val(c) == CASE c = "Q" -> 16

DecodeError == [ok |-> FALSE, bytes |-> <<>>]
Decoded(bytes) == [ok |-> TRUE, bytes |-> bytes]

\* binascii.a2b_base64 in non-strict mode: characters outside the alphabet are
\* skipped, '=' counts as padding only once two characters of a quad were read,
\* a complete pad ends the parse, and an unfinished quad is an error.
RECURSIVE a2b_base64(_, _, _, _, _, _)
a2b_base64(s, i, quad_pos, leftchar, pads, out) ==
    IF i > Len(s) THEN (IF quad_pos # 0 THEN DecodeError ELSE Decoded(out))
    ELSE IF s[i] = "=" THEN
        IF quad_pos >= 2 /\ quad_pos + pads + 1 >= 4 THEN Decoded(out)
        ELSE a2b_base64(s, i + 1, quad_pos, leftchar,
                        IF quad_pos >= 2 THEN pads + 1 ELSE pads, out)
    ELSE IF ~IsB64(s[i]) THEN a2b_base64(s, i + 1, quad_pos, leftchar, pads, out)
    ELSE LET v == B64Val(s[i]) IN
        CASE quad_pos = 0 -> a2b_base64(s, i + 1, 1, v, 0, out)
          [] quad_pos = 1 -> a2b_base64(s, i + 1, 2, v % 16, 0,
                                        Append(out, (leftchar * 4 + v \div 16) % 256))
          [] quad_pos = 2 -> a2b_base64(s, i + 1, 3, v % 4, 0,
                                        Append(out, (leftchar * 16 + v \div 4) % 256))
          [] quad_pos = 3 -> a2b_base64(s, i + 1, 0, 0, 0,
                                        Append(out, (leftchar * 64 + v) % 256))

\* a str argument is first encoded as ASCII (ValueError otherwise)
b64decode(s) ==
    IF \E i \in 1..Len(s) : ~IsAscii(s[i]) THEN DecodeError
    ELSE a2b_base64(s, 1, 0, 0, 0, <<>>)

\* main.py:101-102: if ',' in img_b64: _, img_b64 = img_b64.split(',', 1)
strip_header(s) ==
    IF \E i \in 1..Len(s) : s[i] = ","
    THEN LET k == CHOOSE i \in 1..Len(s) : s[i] = "," /\ \A j \in 1..(i - 1) : s[j] # ","
         IN  SubSeq(s, k + 1, Len(s))
    ELSE s

(***************************************************************************)
(* /start handler  (main.py:53-67)                                         *)
(***************************************************************************)
UrlChars == {"h", "/"}
EnvVals == {NoneStr} \cup {Str(s) : s \in SeqsUpTo(UrlChars, MaxUrlLen)}
EnvSample == {NoneStr, Str(<<"h">>)}

RECURSIVE rstrip(_)
rstrip(s) == IF s # <<>> /\ s[Len(s)] = "/" THEN rstrip(SubSeq(s, 1, Len(s) - 1)) ELSE s

\* mutant of base_url: the trailing slashes are kept
base_url_unstripped == Or(Or(APP_URL, WEBHOOK_URL), Str(<<>>)).s

\* main.py:57
base_url == rstrip(Or(Or(APP_URL, WEBHOOK_URL), Str(<<>>)).s)

NoUrl == <<>>
TextNotConfigured == "APP_URL or WEBHOOK_URL not configured"
TextPrompt == "press the button"

Call(api, chat_id, text, url, path, photo, ok) ==
    [api |-> api, chat_id |-> chat_id, text |-> text, url |-> url,
     path |-> path, photo |-> photo, ok |-> ok]

\* the calls handle_start makes for a message from chat_id; ok is the outcome
\* of the bot API call
handle_start(chat_id, ok) ==
    IF base_url = <<>>
    THEN <<Call("send_message", chat_id, TextNotConfigured, NoUrl, 0, <<>>, ok)>>
    ELSE <<Call("send_message", chat_id, TextPrompt,
                base_url \o <<"/", "?chat_id=", chat_id>>, 0, <<>>, ok)>>

\* message text: a sequence of whitespace-separated words, each a sequence of tokens
Texts == { << <<"/", "start">> >>, << <<"/", "start">>, <<"now">> >>,
           << <<"/", "start", "@", "bot">> >>, << <<"hello">> >>,
           << <<"/", "help">> >>, << <<"/", "Start">> >>, << <<"start">> >> }

\* telebot.util.is_command / extract_command, used by commands=['start']
is_command(text) == text[1][1] = "/"

RECURSIVE before_at(_)
before_at(w) == IF w = <<>> \/ w[1] = "@" THEN <<>> ELSE <<w[1]>> \o before_at(Tail(w))

extract_command(text) == IF is_command(text) THEN Tail(before_at(text[1])) ELSE <<None>>

\* mutant of matches_start: the handler is registered for every text message
matches_any_text(update) == update.has_text

\* main.py:53: the filter of the registered handler
matches_start(update) ==
    update.has_text /\ extract_command(update.text) \in {<<"start">>}

(***************************************************************************)
(* Requests                                                                *)
(***************************************************************************)
ChatIds == {None, "", "42"}                 \* data.get('chat_id'): absent, empty, given
ImageSample == {<<"Q", "Q", "Q", "=">>, <<"Q", "Q">>}

\* the JSON body of POST /upload
UploadBodies(images) ==
    {[json |-> FALSE, has_image |-> FALSE, image |-> <<>>, chat_id |-> None]}
    \cup {[json |-> TRUE, has_image |-> FALSE, image |-> <<>>, chat_id |-> "42"]}
    \cup {[json |-> TRUE, has_image |-> TRUE, image |-> i, chat_id |-> c] :
              i \in images, c \in ChatIds}

\* the body of POST /webhook: not JSON, an update without a message, a message
\* without its chat, or a message from a chat with or without text
NoText == << <<>> >>
Update(shape, chat, has_text, text) ==
    [shape |-> shape, chat |-> chat, has_text |-> has_text, text |-> text]
NoUpdate == Update("none", "", FALSE, NoText)
WebhookChats == {"42", "7"}
Updates ==
    {Update(s, "", FALSE, NoText) : s \in {"not_json", "no_message", "no_chat"}}
    \cup {Update("message", c, FALSE, NoText) : c \in WebhookChats}
    \cup {Update("message", c, TRUE, t) : c \in WebhookChats, t \in Texts}
UpdateSample ==
    {Update("not_json", "", FALSE, NoText),
     Update("message", "42", TRUE, << <<"/", "start">> >>),
     Update("message", "42", TRUE, << <<"hello">> >>)}

NoBody == [json |-> FALSE, has_image |-> FALSE, image |-> <<>>, chat_id |-> None]
NoFile == [exists |-> FALSE, data |-> <<>>]
File(data) == [exists |-> TRUE, data |-> data]

\* main.py:115
file_url(filename) == <<"/uploads/", filename, ".png">>
NoRef == <<>>

\* a request and the locals of its handler; file_url is unset until line 115
Idle == [kind |-> "none", data |-> NoBody, img_bytes |-> <<>>, filename |-> 0,
         file_url |-> NoRef, update |-> NoUpdate]

NoResp == [code |-> 0, status |-> "", error |-> "", file |-> NoRef]
Response(code, status, error, file) ==
    [code |-> code, status |-> status, error |-> error, file |-> file]

InitWith(envs) ==
    /\ bot \in BOOLEAN
    /\ APP_URL \in envs
    /\ WEBHOOK_URL \in envs
    /\ files = [i \in Ids |-> NoFile]
    /\ issued = {}
    /\ req = [r \in Reqs |-> Idle]
    /\ pc = [r \in Reqs |-> "idle"]
    /\ resp = [r \in Reqs |-> NoResp]
    /\ calls = [r \in Reqs |-> <<>>]

Init == InitWith(EnvSample)

Config == <<bot, APP_URL, WEBHOOK_URL>>

Reply(r, response) ==
    /\ resp' = [resp EXCEPT ![r] = response]
    /\ pc' = [pc EXCEPT ![r] = "done"]

(***************************************************************************)
(* upload(), main.py:84-126                                                *)
(***************************************************************************)
\* main.py:89-107: read the JSON body, strip the data-URL header, decode
upload_decode(r, bodies) ==
    /\ pc[r] = "idle"
    /\ \E body \in bodies :
        LET dec == b64decode(strip_header(body.image)) IN
        IF ~body.json THEN
            /\ Reply(r, Response(400, "", "Invalid JSON", NoRef))
            /\ req' = [req EXCEPT ![r].kind = "upload", ![r].data = body]
        ELSE IF ~body.has_image THEN
            /\ Reply(r, Response(400, "", "no image provided", NoRef))
            /\ req' = [req EXCEPT ![r].kind = "upload", ![r].data = body]
        ELSE IF ~dec.ok THEN
            /\ Reply(r, Response(400, "", "invalid base64", NoRef))
            /\ req' = [req EXCEPT ![r].kind = "upload", ![r].data = body]
        ELSE
            /\ pc' = [pc EXCEPT ![r] = "open"]
            /\ req' = [req EXCEPT ![r].kind = "upload", ![r].data = body,
                                  ![r].img_bytes = dec.bytes]
            /\ UNCHANGED resp
    /\ UNCHANGED <<Config, files, issued, calls>>

\* mutant of uuid4: the name is not fresh
uuid4_reused == Ids

\* main.py:109: uuid4() draws a 128-bit random value, modelled as a value not
\* drawn before
uuid4 == Ids \ issued

\* main.py:109-111: name the file and open it for writing, which creates it
\* empty (or truncates it); an OSError leaves the handler and Flask answers 500
upload_open(r, id, ok) ==
    /\ pc[r] = "open"
    /\ id \in uuid4
    /\ issued' = issued \cup {id}
    /\ req' = [req EXCEPT ![r].filename = id]
    /\ IF ok THEN
            /\ files' = [files EXCEPT ![id] = File(<<>>)]
            /\ pc' = [pc EXCEPT ![r] = "write"]
            /\ UNCHANGED resp
       ELSE
            /\ Reply(r, Response(500, "", "Internal Server Error", NoRef))
            /\ UNCHANGED files
    /\ UNCHANGED <<Config, calls>>

\* main.py:112-115 with the close at the end of the with block: on success the
\* file holds img_bytes and file_url is set; on an OSError (disk full) the first
\* n bytes are on disk, nothing removes the file, and Flask answers 500
upload_write(r, ok) ==
    /\ pc[r] = "write"
    /\ \E n \in 0..Len(req[r].img_bytes) :
          /\ ok => n = Len(req[r].img_bytes)
          /\ files' = [files EXCEPT
                          ![req[r].filename] = File(SubSeq(req[r].img_bytes, 1, n))]
    /\ IF ok THEN
            /\ pc' = [pc EXCEPT ![r] = "send"]
            /\ req' = [req EXCEPT ![r].file_url = file_url(req[r].filename)]
            /\ UNCHANGED resp
       ELSE
            /\ Reply(r, Response(500, "", "Internal Server Error", NoRef))
            /\ UNCHANGED req
    /\ UNCHANGED <<Config, issued, calls>>

\* mutant of wants_send: the bot is not tested
wants_send_without_bot(chat_id) == chat_id \notin {None, ""}

\* main.py:118: if bot and chat_id
wants_send(chat_id) == bot /\ chat_id \notin {None, ""}

\* mutant of send_failed: a failed send answered like a persisted one
send_failed_201(file) == Response(201, "error_sending", "", file)

\* main.py:124: the answer when send_photo raised
send_failed(file) == Response(500, "error_sending", "", file)

\* mutant of upload_send: a failed send removes the saved file
upload_send_rollback(r, ok) ==
    /\ pc[r] = "send"
    /\ LET chat_id == req[r].data.chat_id
           filename == req[r].filename
           file == req[r].file_url
       IN  IF wants_send(chat_id) THEN
                /\ calls' = [calls EXCEPT ![r] = Append(@,
                       Call("send_photo", chat_id, "", NoUrl, filename,
                            files[filename].data, ok))]
                /\ IF ok THEN Reply(r, Response(201, "sent", "", file)) /\ UNCHANGED files
                   ELSE /\ Reply(r, send_failed(file))
                        /\ files' = [files EXCEPT ![filename] = NoFile]
           ELSE
                /\ ok
                /\ Reply(r, Response(201, "saved", "", file))
                /\ UNCHANGED <<calls, files>>
    /\ UNCHANGED <<Config, issued, req>>

\* mutant of upload_send: a failed send is attempted a second time
upload_send_retry(r, ok) ==
    /\ pc[r] = "send"
    /\ LET chat_id == req[r].data.chat_id
           filename == req[r].filename
           file == req[r].file_url
           call == Call("send_photo", chat_id, "", NoUrl, filename,
                        files[filename].data, ok)
       IN  IF wants_send(chat_id) THEN
                /\ calls' = [calls EXCEPT ![r] = IF ok THEN Append(@, call)
                                                 ELSE Append(Append(@, call), call)]
                /\ IF ok THEN Reply(r, Response(201, "sent", "", file))
                   ELSE Reply(r, send_failed(file))
           ELSE
                /\ ok
                /\ Reply(r, Response(201, "saved", "", file))
                /\ UNCHANGED calls
    /\ UNCHANGED <<Config, files, issued, req>>

\* main.py:117-126: send the saved file to the chat when there is a bot and a
\* chat_id, and answer
upload_send(r, ok) ==
    /\ pc[r] = "send"
    /\ LET chat_id == req[r].data.chat_id
           filename == req[r].filename
           file == req[r].file_url
       IN  IF wants_send(chat_id) THEN
                /\ calls' = [calls EXCEPT ![r] = Append(@,
                       Call("send_photo", chat_id, "", NoUrl, filename,
                            files[filename].data, ok))]
                /\ IF ok THEN Reply(r, Response(201, "sent", "", file))
                   ELSE Reply(r, send_failed(file))
           ELSE
                /\ ok
                /\ Reply(r, Response(201, "saved", "", file))
                /\ UNCHANGED calls
    /\ UNCHANGED <<Config, files, issued, req>>

(***************************************************************************)
(* webhook(), main.py:130-141                                              *)
(***************************************************************************)
\* mutant of de_json_ok: nothing is required of the body
de_json_lenient(update) == TRUE

\* Update.de_json raises on a body that is not JSON and on a message without
\* its chat; an update without a message parses and reaches no handler
de_json_ok(update) == update.shape \in {"no_message", "message"}

\* ok is the outcome of the bot API call of the handler; surfaced tells whether
\* a failed call reaches the except clause (the handler ran in the request) or
\* stays in telebot's worker thread
webhook(r, update, ok, surfaced) ==
    /\ pc[r] = "idle"
    /\ req' = [req EXCEPT ![r].kind = "webhook", ![r].update = update]
    /\ IF ~bot THEN
            /\ ok /\ ~surfaced
            /\ Reply(r, Response(400, "", "Bot token not configured", NoRef))
            /\ UNCHANGED calls
       ELSE IF ~de_json_ok(update) THEN
            /\ ok /\ ~surfaced
            /\ Reply(r, Response(500, "", "failed processing update", NoRef))
            /\ UNCHANGED calls
       ELSE IF update.shape = "message" /\ matches_start(update) THEN
            /\ surfaced => ~ok
            /\ calls' = [calls EXCEPT ![r] = @ \o handle_start(update.chat, ok)]
            /\ IF surfaced
               THEN Reply(r, Response(500, "", "failed processing update", NoRef))
               ELSE Reply(r, Response(200, "", "", NoRef))
       ELSE
            /\ ok /\ ~surfaced
            /\ Reply(r, Response(200, "", "", NoRef))
            /\ UNCHANGED calls
    /\ UNCHANGED <<Config, files, issued>>

(***************************************************************************)
(* Specifications                                                          *)
(***************************************************************************)
Upload(rs, bodies) ==
    \/ \E r \in rs : upload_decode(r, bodies)
    \/ \E r \in rs, id \in Ids, ok \in BOOLEAN : upload_open(r, id, ok)
    \/ \E r \in rs, ok \in BOOLEAN : upload_write(r, ok)
    \/ \E r \in rs, ok \in BOOLEAN : upload_send(r, ok)

Webhook(rs, updates) ==
    \E r \in rs, update \in updates, ok \in BOOLEAN, surfaced \in BOOLEAN :
        webhook(r, update, ok, surfaced)

\* concurrent requests of both kinds
SampleBodies == UploadBodies(ImageSample)
Next == Upload(Reqs, SampleBodies) \/ Webhook(Reqs, UpdateSample)
Spec == Init /\ [][Next]_vars

\* one upload, over every image string up to MaxLen
InitCodec == InitWith({NoneStr})
AllBodies == UploadBodies(Images)
NextCodec == Upload({1}, AllBodies)
SpecCodec == InitCodec /\ [][NextCodec]_vars

\* one update of every shape, over every APP_URL and WEBHOOK_URL up to MaxUrlLen
InitStart == InitWith(EnvVals)
NextStart == Webhook({1}, Updates)
SpecStart == InitStart /\ [][NextStart]_vars

(***************************************************************************)
(* Vocabulary of the properties                                            *)
(***************************************************************************)
IsUpload(r) == req[r].kind = "upload"
IsWebhook(r) == req[r].kind = "webhook"
Done(r) == pc[r] = "done"

\* the request carried an image string that the decoder accepted
Decodable(r) ==
    /\ req[r].data.json
    /\ req[r].data.has_image
    /\ b64decode(strip_header(req[r].data.image)).ok

\* the handler got past the write of its file without an error
Persisted(r) == req[r].file_url # NoRef

\* the reference /uploads/<id>.png of the request's file
Ref(r) == <<"/uploads/", req[r].filename, ".png">>

\* the request called send_photo and the call failed
SendPhotoFailed(r) ==
    /\ IsUpload(r)
    /\ \E i \in 1..Len(calls[r]) : calls[r][i].api = "send_photo" /\ ~calls[r][i].ok

\* standard base64 (RFC 4648): only alphabet characters, a length that is a
\* multiple of 4, and at most two '=' that end the string
ValidBase64(s) ==
    /\ Len(s) % 4 = 0
    /\ \A i \in 1..Len(s) :
          \/ s[i] = "Q"
          \/ (s[i] = "=" /\ i >= Len(s) - 1 /\ \A j \in (i + 1)..Len(s) : s[j] = "=")

\* the text begins with the command token /start (alone or as /start@name)
IsStartText(text) ==
    /\ Len(text[1]) >= 2
    /\ text[1][1] = "/"
    /\ text[1][2] = "start"
    /\ Len(text[1]) > 2 => text[1][3] = "@"

IsStart(r) ==
    /\ IsWebhook(r)
    /\ req[r].update.shape = "message"
    /\ req[r].update.has_text
    /\ IsStartText(req[r].update.text)

\* the configured base application URL as written in the environment
Configured == IF Truthy(APP_URL) THEN APP_URL.s
              ELSE IF Truthy(WEBHOOK_URL) THEN WEBHOOK_URL.s ELSE <<>>

Link(base, chat) == base \o <<"/", "?chat_id=", chat>>

\* b is s without its trailing '/' characters
IsStripped(b, s) ==
    /\ Len(b) <= Len(s)
    /\ b = SubSeq(s, 1, Len(b))
    /\ b # <<>> => b[Len(b)] # "/"
    /\ \A i \in (Len(b) + 1)..Len(s) : s[i] = "/"

(***************************************************************************)
(* C1                                                                      *)
(***************************************************************************)
\* C1 as stated: every upload whose image was persisted is answered with
\* HTTP 201, also when send_photo failed.
C1_Original ==
    \A r \in Reqs : IsUpload(r) /\ Done(r) /\ Persisted(r) => resp[r].code = 201

\* C1 amended: every upload whose image was persisted is answered with HTTP
\* 201, except that when a chat_id was given, the bot is configured and
\* send_photo fails it is answered with HTTP 500, status error_sending and the
\* file reference.
C1_PersistedAnswer ==
    \A r \in Reqs :
        IsUpload(r) /\ Done(r) /\ Persisted(r) =>
            IF SendPhotoFailed(r)
            THEN /\ bot /\ req[r].data.chat_id \notin {None, ""}
                 /\ resp[r] = Response(500, "error_sending", "", Ref(r))
            ELSE resp[r].code = 201 /\ resp[r].file = Ref(r)

C1_Witness ==
    \E r \in Reqs :
        /\ IsUpload(r) /\ Done(r) /\ Persisted(r) /\ SendPhotoFailed(r)
        /\ resp[r].code = 500

(***************************************************************************)
(* C2                                                                      *)
(***************************************************************************)
\* C2: once send_photo has failed for an upload, in that state and in every
\* later one the file the request wrote exists with the request's decoded
\* bytes, and the response carries /uploads/<id>.png and status error_sending.
C2_FileKept ==
    \A r \in Reqs :
        SendPhotoFailed(r) =>
            /\ files[req[r].filename] = File(req[r].img_bytes)
            /\ Done(r)
            /\ resp[r].file = Ref(r)
            /\ resp[r].status = "error_sending"

C2_Witness ==
    \E r \in Reqs, q \in Reqs :
        /\ SendPhotoFailed(r) /\ req[r].img_bytes # <<>>
        /\ q # r /\ IsUpload(q) /\ Done(q) /\ Persisted(q)

(***************************************************************************)
(* C3                                                                      *)
(***************************************************************************)
NoBotAnswer(r) ==
    /\ files[req[r].filename] = File(req[r].img_bytes)
    /\ resp[r] = Response(201, "saved", "", Ref(r))

C4_Original ==
    \A r \in Reqs :
        /\ IsUpload(r) /\ req[r].data.json /\ req[r].data.has_image
        /\ ~ValidBase64(strip_header(req[r].data.image))
        => /\ Done(r)
           /\ resp[r].code = 400
           /\ req[r].filename = 0
           /\ calls[r] = <<>>

(***************************************************************************)
(* C5                                                                      *)
(***************************************************************************)
DistinctNames ==
    \A r \in Reqs, q \in Reqs :
        r # q /\ req[r].filename # 0 /\ req[q].filename # 0
        => req[r].filename # req[q].filename

\* C5: every step keeps the files that exist; a save creates one new file,
\* under a name no other request has; a file changes only by the step of the
\* one request that owns its name; and the names of any two uploads differ.
C5_Unique ==
    [][ /\ \A id \in Ids : files[id].exists => files'[id].exists
        /\ \A r \in Reqs :
              pc[r] = "open" /\ pc'[r] = "write" =>
                 /\ ~files[req'[r].filename].exists
                 /\ files'[req'[r].filename].exists
                 /\ \A q \in Reqs : req[q].filename # req'[r].filename
                 /\ \A id \in Ids : id # req'[r].filename => files'[id] = files[id]
        /\ \A id \in Ids :
              files'[id] # files[id] =>
                 \E r \in Reqs :
                    /\ pc[r] \in {"open", "write"} /\ pc'[r] # pc[r]
                    /\ req'[r].filename = id
                    /\ \A q \in Reqs : q # r => req'[q].filename # id
        /\ DistinctNames'
      ]_vars

C5_Witness ==
    \E r \in Reqs, q \in Reqs :
        /\ r # q
        /\ IsUpload(r) /\ Done(r) /\ Persisted(r)
        /\ IsUpload(q) /\ Done(q) /\ Persisted(q)
        /\ req[r].data.image = req[q].data.image
        /\ req[r].filename # req[q].filename
        /\ files[req[r].filename] = File(req[r].img_bytes)
        /\ files[req[q].filename] = File(req[q].img_bytes)

Unparsed(r) ==
    IsWebhook(r) /\ req[r].update.shape \in {"not_json", "no_message", "no_chat"}

\* C7 as stated: with the bot configured, a webhook body that is not JSON or
\* lacks the message / chat fields causes no outbound action and is never
\* answered with a non-2xx status.
C7_Original ==
    \A r \in Reqs :
        bot /\ Unparsed(r) /\ Done(r) =>
            calls[r] = <<>> /\ resp[r].code \in 200..299

\* C7 amended: with the bot configured, such a body causes no outbound
\* action; a body that is not JSON, or whose message lacks its chat, is
\* answered with HTTP 500 and the error "failed processing update"; only an
\* update without a message is answered with HTTP 200.
C7_ParseError500 ==
    \A r \in Reqs :
        bot /\ Unparsed(r) /\ Done(r) =>
            /\ calls[r] = <<>>
            /\ resp[r] = IF req[r].update.shape = "no_message"
                         THEN Response(200, "", "", NoRef)
                         ELSE Response(500, "", "failed processing update", NoRef)

C7_Witness ==
    \E r \in Reqs :
        /\ bot
        /\ Unparsed(r) /\ Done(r) /\ req[r].update.shape = "no_chat"
        /\ resp[r].code = 500

(***************************************************************************)
(* C8                                                                      *)
(***************************************************************************)
\* C8: with the bot configured, an update whose text does not begin with the
\* command token causes no bot API call and is answered 200 with an empty body.
C8_Silent ==
    \A r \in Reqs :
        /\ bot /\ IsWebhook(r) /\ Done(r)
        /\ req[r].update.shape = "message" /\ req[r].update.has_text
        /\ ~IsStartText(req[r].update.text)
        => calls[r] = <<>> /\ resp[r] = Response(200, "", "", NoRef)

C8_Witness ==
    \E r \in Reqs :
        /\ bot /\ IsWebhook(r) /\ Done(r)
        /\ req[r].update.has_text /\ req[r].update.text = << <<"hello">> >>
        /\ resp[r].code = 200

(***************************************************************************)
(* C9                                                                      *)
(***************************************************************************)
\* C9 as stated: an upload whose write fails (at open or during write) ends
\* with an error, without a send and without a file reference, and leaves no
\* file; every file in the uploads store, other than one being written right
\* now, holds the complete decoded bytes of the request that created it.
C9_Original ==
    /\ \A r \in Reqs :
          IsUpload(r) /\ Done(r) /\ Decodable(r) /\ ~Persisted(r) =>
             /\ calls[r] = <<>>
             /\ resp[r].file = NoRef
             /\ resp[r].code >= 400
             /\ req[r].filename # 0 => ~files[req[r].filename].exists
    /\ \A id \in Ids :
          files[id].exists =>
             \E r \in Reqs :
                /\ req[r].filename = id
                /\ pc[r] = "write" \/ files[id].data = req[r].img_bytes

(***************************************************************************)
(* C10                                                                     *)
(***************************************************************************)
\* C10: a request makes at most one bot API call.  The call of an upload is
\* send_photo, made once its file holds all its decoded bytes, with that file
\* and the request's chat_id; the call of an update is send_message to the chat
\* of a /start.
C10_SingleCall ==
    \A r \in Reqs :
        /\ Len(calls[r]) <= 1
        /\ \A i \in 1..Len(calls[r]) :
              IF IsUpload(r)
              THEN /\ calls[r][i].api = "send_photo"
                   /\ Persisted(r)
                   /\ calls[r][i].path = req[r].filename
                   /\ calls[r][i].photo = req[r].img_bytes
                   /\ calls[r][i].chat_id = req[r].data.chat_id
                   /\ req[r].data.chat_id \notin {None, ""}
              ELSE /\ calls[r][i].api = "send_message"
                   /\ IsStart(r)
                   /\ calls[r][i].chat_id = req[r].update.chat

C10_Witness ==
    \E r \in Reqs, q \in Reqs :
        /\ SendPhotoFailed(r) /\ Done(r) /\ Len(calls[r]) = 1
        /\ IsStart(q) /\ Done(q) /\ Len(calls[q]) = 1

====
